---- MODULE Spec2Model ----
(***************************************************************************)
(* A model of mini-redis: the RESP frame sizes, the stream container, and  *)
(* the primary's replication engine (propagation tasks, replica offsets,   *)
(* WAIT triggers) together with the replica-side offset accounting.        *)
(***************************************************************************)
EXTENDS Integers, Sequences, FiniteSets, TLC

\* ---------------------------------------------------------------- bounds
MaxNum == 2          \* timestamps and sequence numbers of XADD id specs: 0..MaxNum
MaxClock == 2        \* the wall clock (ms) runs over 0..MaxClock
MaxAdds == 3         \* calls of Stream.xadd in one run of SpecStream
MaxCmds == 2         \* commands the clients of the primary send in one run
MaxReplicaCmds == 1  \* commands the replicas' own clients send in one run
MaxResets == 1       \* replica connections that are lost in one run
MaxStoreCmds == 3    \* commands sent in one run of SpecStore
MaxReadCmds == 3     \* commands sent in one run of SpecXread
MaxRangeCmds == 3    \* commands sent in one run of SpecRange
MaxPipeCmds == 3     \* commands sent in one run of SpecPipe
MaxDecode == 4       \* frames RedisDeserializer.deserialize yields from one buffer
MaxKeyCmds == 3      \* commands sent in one run of SpecKeyspace
MaxServeCmds == 2    \* commands the replica's clients send in one run of SpecReplica

Conns == {"c1", "c2"}        \* client connections of the primary
Replicas == {"r1", "r2"}     \* peers that connect to the primary as replicas
Keys == {"k", "s"}
Dummy == "dummy"             \* a deleted slot of the _slave_connections dict

None == "None"

\* ------------------------------------------------------------ wire codec
\* len(str(n)) of a decimal length prefix
Digits(n) == IF n < 10 THEN 1 ELSE IF n < 100 THEN 2 ELSE 3

\* len of "$<len>\r\n<s>\r\n"
BulkLen(s) == 1 + Digits(Len(s)) + 2 + Len(s) + 2

RECURSIVE SumBulkLen(_, _)
SumBulkLen(arr, i) ==
    IF i > Len(arr) THEN 0 ELSE BulkLen(arr[i]) + SumBulkLen(arr, i + 1)

\* len of "*<n>\r\n" followed by the n bulk strings
\* a frame length that leaves out the array header
ArrayLenNoHeader(arr) == SumBulkLen(arr, 1)

ArrayLen(arr) == 1 + Digits(Len(arr)) + 2 + SumBulkLen(arr, 1)

\* ------------------------------------------------------ stream container
StreamKey(ts, sq) == [timestamp |-> ts, sequence_number |-> sq]

\* dataclass(order=True): lexicographic on (timestamp, sequence_number)
KeyLess(a, b) ==
    \/ a.timestamp < b.timestamp
    \/ a.timestamp = b.timestamp /\ a.sequence_number < b.sequence_number

KeyStr(k) == ToString(k.timestamp) \o "-" \o ToString(k.sequence_number)

IdNums == 0..MaxNum

\* int(id_.split("-")[0]) of "<ts>-*"
split_ts(id_) == CHOOSE t \in IdNums : id_ = ToString(t) \o "-*"

\* map(int, id_.split("-")) of "<ts>-<seq>"
split_pair(id_) ==
    CHOOSE p \in IdNums \X IdNums : id_ = KeyStr(StreamKey(p[1], p[2]))

endswith_star(id_) == \E t \in IdNums : id_ = ToString(t) \o "-*"

NewStream == [entries |-> <<>>, last_entry |-> StreamKey(0, 0)]

\* Stream._vaidate_id: the key the id spec stands for, or the error raised
vaidate_id(self, id_, now) ==
    IF id_ = "*"
    THEN [ok |-> TRUE, key |-> StreamKey(now, 0)]
    ELSE IF endswith_star(id_)
    THEN LET timestamp == split_ts(id_)
             sequence_number ==
                 IF self.last_entry.timestamp = timestamp
                 THEN self.last_entry.sequence_number + 1
                 ELSE 0
         IN [ok |-> TRUE, key |-> StreamKey(timestamp, sequence_number)]
    ELSE LET p == split_pair(id_)
             timestamp == p[1]
             sequence_number == p[2]
         IN IF timestamp <= 0 /\ sequence_number <= 0
            THEN [ok |-> FALSE, err |-> "StreamIDTooLowError"]
            ELSE IF \/ timestamp < self.last_entry.timestamp
                    \/ /\ timestamp = self.last_entry.timestamp
                       /\ sequence_number <= self.last_entry.sequence_number
            THEN [ok |-> FALSE, err |-> "StreamIdOrderError"]
            ELSE [ok |-> TRUE, key |-> StreamKey(timestamp, sequence_number)]

\* self._entries[key] = value on a dict: an existing key keeps its position
dict_set(entries, key, value) ==
    IF \E i \in DOMAIN entries : entries[i].key = key
    THEN [i \in DOMAIN entries |->
            IF entries[i].key = key THEN [key |-> key, value |-> value]
            ELSE entries[i]]
    ELSE Append(entries, [key |-> key, value |-> value])

\* Stream.xadd: the stream after the call and the returned id (or the error)
xadd(self, id_, value, now) ==
    LET v == vaidate_id(self, id_, now) IN
    IF v.ok
    THEN [stream |-> [entries |-> dict_set(self.entries, v.key, value),
                      last_entry |-> v.key],
          ok |-> TRUE, ret |-> KeyStr(v.key)]
    ELSE [stream |-> self, ok |-> FALSE, ret |-> v.err]

\* RedisError.message of the exception classes
message(err) ==
    CASE err = "StreamIdOrderError" ->
            "The ID specified in XADD is equal or smaller than the target stream top item"
      [] err = "StreamIDTooLowError" ->
            "The ID specified in XADD must be greater than 0-0"
      [] OTHER -> err

\* every id spec form: "*", "<ts>-*", "<ts>-<seq>"
IdSpecs ==
    {"*"} \cup {ToString(t) \o "-*" : t \in IdNums}
          \cup {KeyStr(StreamKey(t, s)) : t \in IdNums, s \in IdNums}

\* ------------------------------------------------------------ messages
\* Message.from_raw / Message.from_parsed of an array of bulk strings;
\* id is the position of the command in the order the primary handled it
Message(parsed, id) ==
    [kind |-> "array", parsed |-> parsed, size |-> ArrayLen(parsed), id |-> id]

GetAck == <<"REPLCONF", "GETACK", "*">>

RdbLen == 88

\* "+FULLRESYNC <replid> <offset>\r\n" with a 40 character replid
FullResync(off) ==
    [kind |-> "simple", parsed |-> <<"FULLRESYNC">>,
     size |-> 1 + Len("FULLRESYNC") + 1 + 40 + 1 + Digits(off) + 2, id |-> 0]

\* "$88\r\n" followed by the RDB bytes, no trailing CRLF
RdbFrame ==
    [kind |-> "bulk", parsed |-> <<"REDIS0011">>,
     size |-> 1 + Digits(RdbLen) + 2 + RdbLen, id |-> 0]

\* message.parsed[0].lower()
lower(s) ==
    CASE s = "SET" -> "set" [] s = "GET" -> "get" [] s = "XADD" -> "xadd"
      [] s = "PING" -> "ping" [] s = "WAIT" -> "wait"
      [] s = "REPLCONF" -> "replconf" [] s = "PSYNC" -> "psync"
      [] s = "GETACK" -> "getack" [] s = "ACK" -> "ack"
      [] s = "KEYS" -> "keys" [] s = "XRANGE" -> "xrange"
      [] s = "XREAD" -> "xread" [] s = "TYPE" -> "type"
      [] s = "ECHO" -> "echo" [] s = "INFO" -> "info"
      [] s = "CONFIG" -> "config" [] s = "PX" -> "px"
      [] s = "STREAMS" -> "streams" [] s = "BLOCK" -> "block"
      [] OTHER -> s

IntMax == 511

\* int(s) of a decimal string
int(s) == CHOOSE n \in 0..IntMax : ToString(n) = s

\* a minimum that always takes its first argument
MinFirst(a, b) == a

\* min(a, b)
Min(a, b) == IF a <= b THEN a ELSE b

\* ---------------------------------------------------------------- store
Absent == [kind |-> "none"]

\* StorageValue.expired_time of a value that never expires (None)
NoExpiry == -1

\* Storage.__getitem__: the value read and the store after the lazy delete
storage_get(st, key, now) ==
    IF key \in DOMAIN st /\ st[key].kind # "none"
    THEN IF st[key].expired_time = NoExpiry \/ st[key].expired_time > now
         THEN [value |-> st[key], store |-> st]
         ELSE [value |-> Absent, store |-> [st EXCEPT ![key] = Absent]]
    ELSE [value |-> Absent, store |-> st]

\* SetCommand._set_value without the propagation
set_value(st, key, value, expired_time) ==
    [st EXCEPT ![key] =
        [kind |-> "string", value |-> value, expired_time |-> expired_time]]

\* XAddCommand._xadd inside the try of XAddCommand.execute: a missing key
\* gets an empty Stream before the id is validated; a key that holds a str
\* has no xadd (AttributeError, not a RedisError)
xadd_command(st, key, id_, entries, now) ==
    LET g == storage_get(st, key, now)
        st1 == IF g.value.kind = "none"
               THEN [g.store EXCEPT ![key] =
                        [kind |-> "stream", value |-> NewStream,
                         expired_time |-> NoExpiry]]
               ELSE g.store
    IN IF st1[key].kind = "string"
       THEN [store |-> st1, ok |-> FALSE, ret |-> "AttributeError"]
       ELSE LET r == xadd(st1[key].value, id_, entries, now) IN
            [store |-> [st1 EXCEPT ![key].value = r.stream],
             ok |-> r.ok, ret |-> r.ret]

\* ------------------------------------------------- primary: replica dict
\* MasterServer.num_replicas: len(self._slave_connections)
num_replicas(slv) == Cardinality({i \in DOMAIN slv : slv[i] # Dummy})

in_dict(slv, p) == \E i \in DOMAIN slv : slv[i] = p

\* self._slave_connections[peername] = connection
dict_put(slv, p) == IF in_dict(slv, p) THEN slv ELSE Append(slv, p)

\* del self._slave_connections[peername]
dict_del(slv, p) == [i \in DOMAIN slv |-> IF slv[i] = p THEN Dummy ELSE slv[i]]

\* the dict iterator's next entry after position pos, 0 when exhausted
next_live(slv, pos) ==
    IF \E i \in DOMAIN slv : i > pos /\ slv[i] # Dummy
    THEN CHOOSE i \in DOMAIN slv :
            /\ i > pos /\ slv[i] # Dummy
            /\ \A j \in DOMAIN slv : (j > pos /\ slv[j] # Dummy) => i <= j
    ELSE 0

\* an offset that is never advanced
inc_offset_skipped(off, n) == off

\* RedisServer._inc_offset
inc_offset(off, n) == off + n

\* a count of the replicas strictly past the offset
count_synced_replicas_strict(slv, rep, off) ==
    Cardinality({i \in DOMAIN slv : slv[i] # Dummy /\ rep[slv[i]] > off})

\* MasterServer.count_synced_replicas
count_synced_replicas(slv, rep, off) ==
    Cardinality({i \in DOMAIN slv : slv[i] # Dummy /\ rep[slv[i]] >= off})

\* list.remove(t)
list_remove(l, i) == SubSeq(l, 1, i - 1) \o SubSeq(l, i + 1, Len(l))

\* MasterServer._check_wait_triggers: a for loop over the list it removes
\* from, so the list iterator's index i moves on past the shifted item
RECURSIVE check_wait_triggers(_, _, _, _, _)
check_wait_triggers(trigs, evs, i, slv, rep) ==
    IF i > Len(trigs) THEN [triggers |-> trigs, events |-> evs]
    ELSE IF count_synced_replicas(slv, rep, trigs[i].master_offset)
                >= trigs[i].num_replicas
         THEN check_wait_triggers(list_remove(trigs, i),
                                  evs \cup {trigs[i].id}, i + 1, slv, rep)
         ELSE check_wait_triggers(trigs, evs, i + 1, slv, rep)

\* MasterServer.register_trigger
register_trigger(trigs, t) == Append(trigs, t)

\* the registration WaitCommand.execute calls for its WaitTrigger
register_stream_trigger(trigs, t) == register_trigger(trigs, t)

\* the second loop of MasterServer.propagate: del raises KeyError for a
\* peer another task has removed already
RECURSIVE del_all(_, _, _)
del_all(slv, to_remove, i) ==
    IF i > Len(to_remove) THEN [status |-> "done", slaves |-> slv]
    ELSE IF ~ in_dict(slv, to_remove[i]) THEN [status |-> "error", slaves |-> slv]
    ELSE del_all(dict_del(slv, to_remove[i]), to_remove, i + 1)

\* MasterServer.propagate from the head of its for loop to its next drain:
\* "drain" after a write, "done" at the end, "error" when the dict changed
\* size during the iteration (RuntimeError) or a del failed (KeyError)
prop_step(t, slv, brk) ==
    IF num_replicas(slv) # t.used
    THEN [status |-> "error", task |-> t, slaves |-> slv, wrote |-> None]
    ELSE LET i == next_live(slv, t.pos) IN
         IF i # 0
         THEN [status |-> "drain",
               task |-> [t EXCEPT !.pos = i,
                                  !.to_remove = IF slv[i] \in brk
                                                THEN Append(@, slv[i]) ELSE @],
               slaves |-> slv,
               wrote |-> IF slv[i] \in brk THEN None ELSE slv[i]]
         ELSE LET d == del_all(slv, t.to_remove, 1) IN
              [status |-> d.status, task |-> t, slaves |-> d.slaves,
               wrote |-> None]

NewTask(msg, owner, slv) ==
    [msg |-> msg, pos |-> 0, used |-> num_replicas(slv), to_remove |-> <<>>,
     owner |-> owner]

\* the scan the server makes after an XADD to stream_key that produced
\* entry_id: the triggers of that key with a watermark below it are fired
\* and removed
check_stream_triggers(trigs, evs, stream_key, entry_id) ==
    LET hit(t) == t.key = stream_key /\ KeyLess(t.entry_id, entry_id)
        keep(t) == ~ hit(t)
    IN [triggers |-> SelectSeq(trigs, keep),
        events |-> evs \cup {trigs[i].id : i \in {j \in DOMAIN trigs : hit(trigs[j])}}]

\* an _xadd that leaves the triggers alone
xadd_triggers_skipped(trigs, evs, stream_key, r) ==
    [triggers |-> trigs, events |-> evs]

\* XAddCommand._xadd after stream.xadd: check_stream_triggers is called with
\* the id xadd returned; an xadd that raised does not reach the call
xadd_triggers(trigs, evs, stream_key, r) ==
    IF r.ok
    THEN check_stream_triggers(trigs, evs, stream_key,
                               r.store[stream_key].value.last_entry)
    ELSE [triggers |-> trigs, events |-> evs]

\* --------------------------------------------------------------- xrange
\* math.inf, above every sequence number
inf == IntMax + 1

\* KeyLess or equal: start_key <= key <= end_key compares with this
KeyLeq(a, b) == a = b \/ KeyLess(a, b)

\* Stream._make_key: a key without "-" is int(key) with sequence 0 (start)
\* or inf (end); a key with "-" is map(int, key.split("-")); int of a text
\* that is no number raises ValueError
make_key(key, position) ==
    IF \E p \in IdNums \X IdNums : key = KeyStr(StreamKey(p[1], p[2]))
    THEN [ok |-> TRUE,
          key |-> StreamKey(split_pair(key)[1], split_pair(key)[2])]
    ELSE IF \E n \in 0..IntMax : ToString(n) = key
    THEN [ok |-> TRUE,
          key |-> StreamKey(int(key), IF position = "end" THEN inf ELSE 0)]
    ELSE [ok |-> FALSE, err |-> "ValueError"]

\* Stream.xrange: the entries between the two keys, in dict order
xrange(self, start, end) ==
    LET start_key == make_key(start, "start")
        end_key == make_key(end, "end")
    IN IF start_key.ok /\ end_key.ok
       THEN [ok |-> TRUE,
             items |-> SelectSeq(self.entries,
                           LAMBDA e : /\ KeyLeq(start_key.key, e.key)
                                      /\ KeyLeq(e.key, end_key.key))]
       ELSE [ok |-> FALSE, items |-> <<>>]

\* ---------------------------------------------------------------- xread
\* utils.to_pairs: the first half zipped with the second half
to_pairs(values) ==
    LET h == Len(values) \div 2 IN
    [i \in 1..h |-> <<values[i], values[(Len(values) \div 2) + i]>>]

\* Stream.max_key: the id of the newest entry
max_key(self) == self.last_entry

\* an id that takes "$" for the beginning of the stream
from_string_zero(start, value) ==
    IF start = "$" THEN StreamKey(-1, -1)
    ELSE StreamKey(split_pair(start)[1], split_pair(start)[2])

\* EntryId.from_string
from_string(start, value) ==
    IF start = "$"
    THEN IF value.kind = "none" THEN StreamKey(-1, -1) ELSE max_key(value.value)
    ELSE StreamKey(split_pair(start)[1], split_pair(start)[2])

\* Stream.xread: the entries with an id above entry_id
xread(self, entry_id) ==
    SelectSeq(self.entries, LAMBDA e : KeyLess(entry_id, e.key))

\* XReadCommand._xread, the list of (stream_key, EntryId) it starts with
stream_entry_id(st, streams, now) ==
    LET ps == to_pairs(streams) IN
    [i \in DOMAIN ps |->
        [key |-> ps[i][1], start |-> ps[i][2],
         entry_id |-> from_string(ps[i][2], storage_get(st, ps[i][1], now).value)]]

\* XReadCommand._xread, the loop that collects the result
RECURSIVE xread_result(_, _, _, _)
xread_result(st, pairs, i, now) ==
    IF i > Len(pairs) THEN <<>>
    ELSE LET v == storage_get(st, pairs[i].key, now).value
             stream_items == IF v.kind = "stream"
                             THEN xread(v.value, pairs[i].entry_id) ELSE <<>>
         IN (IF stream_items # <<>>
             THEN <<[key |-> pairs[i].key, items |-> stream_items]>>
             ELSE <<>>) \o xread_result(st, pairs, i + 1, now)

\* -------------------------------------------------------------- replies
SimpleString(x) == [kind |-> "simple", val |-> x]
ErrorString(x) == [kind |-> "error", val |-> x]
BulkString(x) == [kind |-> "bulk", val |-> x]
Integer(x) == [kind |-> "int", val |-> x]
Null == [kind |-> "null", val |-> None]
Array(x) == [kind |-> "array", val |-> x]

\* ---------------------------------------------------------------- codec
\* RedisSerializer._serialize_impl
RECURSIVE serialize(_)
RECURSIVE serialize_items(_, _)
serialize_items(items, i) ==
    IF i > Len(items) THEN ""
    ELSE serialize(items[i]) \o serialize_items(items, i + 1)

serialize(m) ==
    CASE m.kind = "bulk" ->
            "$" \o ToString(Len(m.val)) \o "\r\n" \o m.val \o "\r\n"
      [] m.kind = "simple" -> "+" \o m.val \o "\r\n"
      [] m.kind = "error" -> "-" \o m.val \o "\r\n"
      [] m.kind = "null" -> "$-1\r\n"
      [] m.kind = "array" ->
            "*" \o ToString(Len(m.val)) \o "\r\n" \o serialize_items(m.val, 1)
      [] m.kind = "int" -> ":" \o ToString(m.val) \o "\r\n"

\* message[a:b] of a bytes object, indices from 0
slice(data, a, b) ==
    LET e == Min(b, Len(data)) IN
    IF a >= e THEN "" ELSE SubSeq(data, a + 1, e)

\* an exception raised while decoding (IndexError, ValueError, TypeError)
Raised == [ok |-> FALSE]

\* the while loop of RedisDeserializer._parse_number: the index of the
\* first byte that is no digit, -1 when it runs off the buffer (IndexError)
RECURSIVE scan_digits(_, _)
scan_digits(data, end_index) ==
    IF end_index >= Len(data) THEN -1
    ELSE IF slice(data, end_index, end_index + 1)
              \in {"0", "1", "2", "3", "4", "5", "6", "7", "8", "9"}
    THEN scan_digits(data, end_index + 1)
    ELSE end_index

\* RedisDeserializer._parse_number; int(b"") raises ValueError
parse_number(data, start_index) ==
    LET end_index == scan_digits(data, start_index) IN
    IF end_index = -1 \/ end_index = start_index THEN Raised
    ELSE [ok |-> TRUE, n |-> int(slice(data, start_index, end_index)),
          end |-> end_index]

\* message.index(b"\r\n"): searched from the start of the buffer
RECURSIVE index_crlf(_, _)
index_crlf(data, i) ==
    IF i + 2 > Len(data) THEN -1
    ELSE IF slice(data, i, i + 2) = "\r\n" THEN i
    ELSE index_crlf(data, i + 1)

\* RedisDeserializer._deserialize_impl. Its (None, None) for an empty rest
\* or an unknown first byte makes either caller raise TypeError on the
\* arithmetic with end_index, so it is folded into Raised.
RECURSIVE deserialize_impl(_, _)
RECURSIVE deserialize_elems(_, _, _, _)
deserialize_elems(data, num_elements, end_index, arr) ==
    IF Len(arr) >= num_elements
    THEN [ok |-> TRUE, value |-> Array(arr), end |-> end_index + 2]
    ELSE LET e == deserialize_impl(data, end_index + 2) IN
         IF ~ e.ok THEN Raised
         ELSE deserialize_elems(data, num_elements, e.end,
                                Append(arr, e.value))

deserialize_impl(data, start_index) ==
    IF start_index >= Len(data) THEN Raised
    ELSE LET first == slice(data, start_index, start_index + 1) IN
         IF first = "*"
         THEN LET p == parse_number(data, start_index + 1) IN
              IF ~ p.ok THEN Raised
              ELSE deserialize_elems(data, p.n, p.end, <<>>)
         ELSE IF first = "$"
         THEN LET p == parse_number(data, start_index + 1) IN
              IF ~ p.ok THEN Raised
              ELSE [ok |-> TRUE,
                    value |-> BulkString(
                        slice(data, p.end + 2, p.end + 2 + p.n)),
                    end |-> p.end + 2 + p.n]
         ELSE IF first = "+"
         THEN LET end_index == index_crlf(data, 0) IN
              IF end_index = -1 THEN Raised
              ELSE [ok |-> TRUE,
                    value |-> SimpleString(
                        slice(data, start_index + 1, end_index)),
                    end |-> end_index + 2]
         ELSE Raised

\* RedisDeserializer.deserialize collected by Message.from_raw; a buffer
\* that keeps yielding frames is cut off after MaxDecode of them
RECURSIVE deserialize(_, _, _)
deserialize(data, start_index, left) ==
    IF left = 0 THEN Raised
    ELSE LET r == deserialize_impl(data, start_index) IN
         IF ~ r.ok THEN Raised
         ELSE LET msg == [parsed |-> r.value,
                          raw |-> slice(data, start_index, r.end),
                          size |-> r.end - start_index]
              IN IF r.end >= Len(data)
                 THEN [ok |-> TRUE, msgs |-> <<msg>>]
                 ELSE LET rest == deserialize(data, r.end, left - 1) IN
                      IF rest.ok
                      THEN [ok |-> TRUE, msgs |-> <<msg>> \o rest.msgs]
                      ELSE Raised

from_raw(raw) == deserialize(raw, 0, MaxDecode)

\* ------------------------------------------------------------ variables
VARIABLES
    offset,         \* MasterServer._offset
    slaves,         \* MasterServer._slave_connections, in dict order
    reported,       \* Connection.offset of each replica connection
    wait_triggers,  \* MasterServer._wait_triggers
    events,         \* ids of the WaitTriggers whose event is set
    ready,          \* propagate tasks created and not yet started, FIFO
    running,        \* propagate coroutines suspended in a writer drain
    conn,           \* the handle_client task of each client connection
    ncmds,          \* commands of its clients the primary has handled
    budget,         \* commands the clients of the primary may still send
    storage,        \* the primary's Storage
    sent,           \* frames written to each replica's socket, in order
    rpos,           \* number of those frames the replica has read
    replica,        \* SlaveServer of each replica: _offset, handshake_finished, store
    acks,           \* frames each replica wrote to the primary, unread
    rconn,          \* the primary's handle_client task of each replica connection
    rcmds,          \* commands received from the replicas' own clients
    broken,         \* replica connections that are lost
    peers,          \* the peers that connect as replicas in this run
    ev,             \* what the last step did
    stream,         \* a Stream object: _entries (in dict order) and _last_entry
    xret,           \* outcome of the last Stream.xadd call
    xcalls,         \* number of Stream.xadd calls made
    clock,          \* time.time_ns() // 1_000_000, datetime.datetime.now() in ms
    stream_triggers,\* the server's list of StreamTriggers
    xwait,          \* the (key, EntryId) pairs of the XREAD each connection is in
    shake,          \* requests of connect_master each replica has sent
    codec           \* a value on its way through the serializer and the deserializer

svars == <<stream, xret, xcalls>>

xvars == <<stream_triggers, xwait, shake, codec>>

pvars == <<offset, slaves, reported, wait_triggers, events, ready, running,
           conn, ncmds, budget, storage, sent, rpos, replica, acks, rconn, rcmds,
           broken, peers, ev>>

vars == <<offset, slaves, reported, wait_triggers, events, ready, running,
          conn, ncmds, budget, storage, sent, rpos, replica, acks, rconn, rcmds,
          broken, peers, ev, stream, xret, xcalls, clock, stream_triggers,
          xwait, shake, codec>>

\* ------------------------------------------------------------- commands
CmdSet == <<"SET", "k", "v">>
CmdSetBad == <<"SET", "k">>
CmdXadd == <<"XADD", "s", "1-1", "f", "v">>
CmdGet == <<"GET", "k">>
CmdPing == <<"PING">>
CmdWait(n) == <<"WAIT", ToString(n), "100">>

\* what one reader.read(CHUNK_SIZE) of a client connection returns: one
\* command, or two commands pipelined in one buffer
Buffers ==
    {<<c>> : c \in {CmdSet, CmdSetBad, CmdXadd, CmdGet, CmdPing,
                    CmdWait(0), CmdWait(1), CmdWait(2)}}
    \cup {<<CmdSet, CmdWait(1)>>, <<CmdSet, CmdSet>>}

\* a command a client of the replica sends to it
ReplicaClientCmds == {CmdPing, <<"GET", "a-key-of-a-replica-client">>}

\* ev records the command-level steps (a command handled, a WAIT returning,
\* an ACK stored); every other step resets it to NoEv
NoEv ==
    [op |-> "other", who |-> None, name |-> "", argc |-> 0, size |-> 0,
     id |-> 0, before |-> 0, n |-> 0, num |-> 0, target |-> 0, val |-> 0,
     ok |-> TRUE, reply |-> <<>>, pairs |-> <<>>]

Ev(op, who, m) ==
    [NoEv EXCEPT !.op = op, !.who = who, !.name = lower(m.parsed[1]),
                 !.argc = Len(m.parsed), !.size = m.size, !.id = m.id,
                 !.before = offset]

\* position of the next handled command in the primary's handling order
NextId == ncmds + 1

\* a handle_client task that forgets the rest of its buffer
Done_dropped(rest) ==
    [pc |-> "read", buf |-> <<>>, tid |-> 0, n |-> 0, num |-> 0, target |-> 0]

\* the handle_client task after the replies of a command are written
Done(rest) ==
    [pc |-> IF rest = <<>> THEN "read" ELSE "next", buf |-> rest,
     tid |-> 0, n |-> 0, num |-> 0, target |-> 0]

\* no value is in the codec
Idle == [stage |-> "idle"]

\* ----------------------------------------------------------------- init
StreamIdle ==
    /\ stream = NewStream
    /\ xret = [ok |-> FALSE, ret |-> None]
    /\ xcalls = 0

PrimaryIdle ==
    /\ offset = 0
    /\ slaves = <<>>
    /\ reported = [r \in Replicas |-> 0]
    /\ wait_triggers = <<>>
    /\ events = {}
    /\ ready = <<>>
    /\ running = {}
    /\ conn = [c \in Conns |-> Done(<<>>)]
    /\ ncmds = 0
    /\ storage = [k \in Keys |-> Absent]
    /\ sent = [r \in Replicas |-> <<>>]
    /\ rpos = [r \in Replicas |-> 0]
    /\ replica = [r \in Replicas |->
                    [offset |-> 0, handshake_finished |-> FALSE,
                     store |-> [k \in Keys |-> Absent]]]
    /\ acks = [r \in Replicas |-> <<>>]
    /\ rconn = [r \in Replicas |-> "new"]
    /\ rcmds = 0
    /\ broken = {}
    /\ ev = NoEv
    /\ stream_triggers = <<>>
    /\ xwait = [c \in Conns |-> <<>>]
    /\ shake = [r \in Replicas |-> 0]
    /\ codec = Idle

Init ==
    /\ PrimaryIdle
    /\ peers = {"r1"}
    /\ budget = MaxCmds
    /\ StreamIdle
    /\ clock = 0

\* ------------------------------------------------ primary: propagation
\* the effect of one stretch of MasterServer.propagate on the sockets, the
\* replica dict and the suspended coroutines
ApplyStep(t, r) ==
    /\ sent' = IF r.wrote # None
               THEN [sent EXCEPT ![r.wrote] = Append(@, t.msg)]
               ELSE sent
    /\ slaves' = r.slaves
    /\ running' = (running \ {t}) \cup
                  (IF r.status = "drain" THEN {r.task} ELSE {})

\* the event loop starts the oldest created propagate task: it adds the
\* message size to the offset and runs to its first drain
PropStart ==
    /\ ready # <<>>
    /\ LET m == Head(ready)
           t0 == NewTask(m, "task", slaves)
           r == prop_step(t0, slaves, broken)
       IN /\ offset' = inc_offset(offset, m.size)
          /\ ApplyStep(t0, r)
          /\ ev' = NoEv
    /\ ready' = Tail(ready)
    /\ UNCHANGED <<reported, wait_triggers, events, conn, ncmds, budget, storage,
                   rpos, replica, acks, rconn, rcmds, broken>>
    /\ UNCHANGED <<peers, svars, clock, xvars>>

\* a propagate coroutine resumes after a drain; the one WAIT awaits inline
\* returns to (or raises in) WaitCommand.execute when it ends
PropStep(t) ==
    /\ t \in running
    /\ LET r == prop_step(t, slaves, broken) IN
        /\ ApplyStep(t, r)
        /\ conn' = IF t.owner \in Conns /\ r.status # "drain"
                   THEN [conn EXCEPT ![t.owner].pc =
                            IF r.status = "done" THEN "block" ELSE "dead"]
                   ELSE conn
        /\ ev' = NoEv
    /\ UNCHANGED <<offset, reported, wait_triggers, events, ready, ncmds, budget,
                   storage, rpos, replica, acks, rconn, rcmds, broken>>
    /\ UNCHANGED <<peers, svars, clock, xvars>>

\* ---------------------------------------- primary: command handlers
\* Each handler is RedisServer._receive_message for one parsed message on
\* a client connection: the hooks, RedisCommandHandler.handle, the command's
\* execute and the writes of its replies, up to the drain after the last.

OthersUnchanged ==
    /\ UNCHANGED <<reported, rpos, replica, acks, rconn, rcmds, broken>>
    /\ UNCHANGED <<peers, svars, clock, xwait, shake, codec>>

\* SetCommand.execute: _set_value creates the propagate task, then stores;
\* the option is matched against the literal "px"
SetCommand(c, parsed, rest) ==
    /\ lower(parsed[1]) = "set"
    /\ LET m == Message(parsed, NextId) IN
        IF Len(parsed) = 3
        THEN /\ ready' = Append(ready, m)
             /\ storage' = set_value(storage, parsed[2], parsed[3], NoExpiry)
             /\ ev' = [Ev("handle", c, m) EXCEPT
                            !.reply = <<SimpleString("OK")>>]
        ELSE IF Len(parsed) = 5 /\ parsed[4] = "px"
        THEN /\ ready' = Append(ready, m)
             /\ storage' = set_value(storage, parsed[2], parsed[3],
                                     clock + int(parsed[5]))
             /\ ev' = [Ev("handle", c, m) EXCEPT
                            !.reply = <<SimpleString("OK")>>]
        ELSE /\ UNCHANGED <<ready, storage>>
             /\ ev' = [Ev("handle", c, m) EXCEPT !.ok = FALSE,
                            !.reply = <<ErrorString(
                                "Wrong number of arguments for'set' command")>>]
    /\ conn' = [conn EXCEPT ![c] = Done(rest)]
    /\ UNCHANGED <<offset, slaves, wait_triggers, running, sent>>
    /\ UNCHANGED <<events, stream_triggers>>
    /\ OthersUnchanged

\* XAddCommand.execute: the propagate task is created before _xadd is tried;
\* _xadd ends with the scan of the stream triggers
XAddCommand(c, parsed, rest) ==
    /\ lower(parsed[1]) = "xadd"
    /\ LET m == Message(parsed, NextId) IN
        IF Len(parsed) >= 3
        THEN LET r == xadd_command(storage, parsed[2], parsed[3],
                                   SubSeq(parsed, 4, Len(parsed)), clock)
                 chk == xadd_triggers(stream_triggers, events, parsed[2], r)
             IN /\ ready' = Append(ready, m)
                /\ storage' = r.store
                /\ stream_triggers' = chk.triggers
                /\ events' = chk.events
                /\ ev' = [Ev("handle", c, m) EXCEPT !.ok = r.ok,
                            !.reply = IF r.ok THEN <<BulkString(r.ret)>>
                                      ELSE IF r.ret = "AttributeError" THEN <<>>
                                      ELSE <<ErrorString(message(r.ret))>>]
                /\ conn' = IF r.ret = "AttributeError"
                           THEN [conn EXCEPT ![c].pc = "dead"]
                           ELSE [conn EXCEPT ![c] = Done(rest)]
        ELSE /\ UNCHANGED <<ready, storage, stream_triggers, events>>
             /\ ev' = [Ev("handle", c, m) EXCEPT !.ok = FALSE,
                            !.reply = <<ErrorString(
                                "Wrong number of arguments for 'xadd' command")>>]
             /\ conn' = [conn EXCEPT ![c] = Done(rest)]
    /\ UNCHANGED <<offset, slaves, wait_triggers, running, sent>>
    /\ OthersUnchanged

\* GetCommand.execute: BulkString(value) if value else None
GetCommand(c, parsed, rest) ==
    /\ lower(parsed[1]) = "get"
    /\ LET m == Message(parsed, NextId) IN
        IF Len(parsed) = 2
        THEN LET g == storage_get(storage, parsed[2], clock) IN
             /\ storage' = g.store
             /\ ev' = [Ev("handle", c, m) EXCEPT
                            !.reply = IF g.value.kind = "string"
                                         /\ g.value.value # ""
                                      THEN <<BulkString(g.value.value)>>
                                      ELSE <<Null>>]
        ELSE /\ UNCHANGED storage
             /\ ev' = [Ev("handle", c, m) EXCEPT !.ok = FALSE,
                            !.reply = <<ErrorString(
                                "Wrong number of arguments for 'get' command")>>]
    /\ conn' = [conn EXCEPT ![c] = Done(rest)]
    /\ UNCHANGED <<offset, slaves, wait_triggers, ready, running, sent>>
    /\ UNCHANGED <<events, stream_triggers>>
    /\ OthersUnchanged

\* PingCommand.execute
PingCommand(c, parsed, rest) ==
    /\ lower(parsed[1]) = "ping"
    /\ ev' = [Ev("handle", c, Message(parsed, NextId)) EXCEPT
                    !.reply = <<SimpleString("PONG")>>]
    /\ conn' = [conn EXCEPT ![c] = Done(rest)]
    /\ UNCHANGED <<offset, slaves, wait_triggers, ready, running, storage, sent>>
    /\ UNCHANGED <<events, stream_triggers>>
    /\ OthersUnchanged

\* WaitCommand.execute up to its first suspension: either the immediate
\* reply, or the registration of the trigger and the start of the awaited
\* propagate(REPLCONF GETACK *), which runs to its first drain
WaitCommand(c, parsed, rest) ==
    /\ lower(parsed[1]) = "wait"
    /\ Len(parsed) = 3
    /\ LET m == Message(parsed, NextId)
           num == Min(int(parsed[2]), num_replicas(slaves))
           master_offset == offset
           synced == count_synced_replicas(slaves, reported, master_offset)
           e == [Ev("handle", c, m) EXCEPT !.n = int(parsed[2]), !.num = num,
                                           !.target = master_offset]
       IN IF num <= synced
          THEN /\ ev' = [e EXCEPT !.op = "wait_reply",
                                  !.val = num_replicas(slaves),
                                  !.reply = <<Integer(num_replicas(slaves))>>]
               /\ conn' = [conn EXCEPT ![c] = Done(rest)]
               /\ UNCHANGED <<offset, slaves, wait_triggers, running, sent>>
          ELSE LET trigger == [id |-> m.id, num_replicas |-> num,
                               master_offset |-> master_offset]
                   t0 == NewTask(Message(GetAck, 0), c, slaves)
                   r == prop_step(t0, slaves, broken)
               IN /\ wait_triggers' =
                        register_stream_trigger(wait_triggers, trigger)
                  /\ offset' = inc_offset(offset, t0.msg.size)
                  /\ ApplyStep(t0, r)
                  /\ conn' = [conn EXCEPT ![c] =
                                [pc |-> "bcast", buf |-> rest, tid |-> m.id,
                                 n |-> int(parsed[2]), num |-> num,
                                 target |-> master_offset]]
                  /\ ev' = [e EXCEPT !.op = "wait_block"]
    /\ UNCHANGED <<ready, storage, events, stream_triggers>>
    /\ OthersUnchanged

HandleClient(c, parsed, rest) ==
    \/ SetCommand(c, parsed, rest)
    \/ XAddCommand(c, parsed, rest)
    \/ GetCommand(c, parsed, rest)
    \/ PingCommand(c, parsed, rest)
    \/ WaitCommand(c, parsed, rest)

\* RedisServer.handle_client: reader.read returns a buffer and its first
\* message is handled
Recv(c, buf) ==
    /\ conn[c].pc = "read"
    /\ c = "c2" => ncmds > 0       \* the connections are named in the order they are used
    /\ Len(buf) <= budget
    /\ budget' = budget - Len(buf)
    /\ ncmds' = ncmds + 1
    /\ HandleClient(c, Head(buf), Tail(buf))

\* RedisServer._receive_message: the next message of the same buffer
HandleNext(c) ==
    /\ conn[c].pc = "next"
    /\ ncmds' = ncmds + 1
    /\ UNCHANGED budget
    /\ HandleClient(c, Head(conn[c].buf), Tail(conn[c].buf))

\* WaitCommand.execute after asyncio.wait_for returned: the event was set
\* (timed_out = FALSE) or the timeout elapsed first; it yields the count of
\* the replicas synced to the offset captured at entry
WaitReturn(c, timed_out) ==
    /\ conn[c].pc = "block"
    /\ timed_out = (conn[c].tid \notin events)
    /\ ev' = [NoEv EXCEPT !.op = IF timed_out THEN "wait_timeout" ELSE "wait_wake",
                          !.who = c, !.name = "wait", !.id = conn[c].tid,
                          !.before = offset, !.n = conn[c].n,
                          !.num = conn[c].num, !.target = conn[c].target,
                          !.val = count_synced_replicas(slaves, reported,
                                                        conn[c].target),
                          !.reply = <<Integer(count_synced_replicas(
                                        slaves, reported, conn[c].target))>>]
    /\ conn' = [conn EXCEPT ![c] = Done(conn[c].buf)]
    /\ UNCHANGED <<offset, slaves, wait_triggers, ready, running, ncmds, budget,
                   storage, sent, events, stream_triggers>>
    /\ OthersUnchanged

\* ------------------------------------- primary: replica connections
\* MasterServer.store_offset and the _check_wait_triggers it ends with
store_offset(slv, rep, trigs, evs, peername, off) ==
    IF ~ in_dict(slv, peername)
    THEN [reported |-> rep, triggers |-> trigs, events |-> evs]
    ELSE LET rep1 == [rep EXCEPT ![peername] = off]
             chk == check_wait_triggers(trigs, evs, 1, slv, rep1)
         IN [reported |-> rep1, triggers |-> chk.triggers, events |-> chk.events]

\* PSYNC ? -1 arrives from a peer: _pre_handle_hook stores the connection,
\* PsyncCommand yields two replies, the first is written and drained
Psync(r) ==
    /\ r \in peers
    /\ rconn[r] = "new"
    /\ slaves' = dict_put(slaves, r)
    /\ sent' = [sent EXCEPT ![r] = Append(@, FullResync(offset))]
    /\ rconn' = [rconn EXCEPT ![r] = "rdb"]
    /\ ev' = NoEv
    /\ UNCHANGED <<offset, reported, wait_triggers, events, ready, running,
                   conn, ncmds, budget, storage, rpos, replica, acks, rcmds, broken>>
    /\ UNCHANGED <<peers, svars, clock, xvars>>

\* the second reply of PSYNC, the RDB payload, is written
PsyncRdb(r) ==
    /\ rconn[r] = "rdb"
    /\ sent' = [sent EXCEPT ![r] = Append(@, RdbFrame)]
    /\ rconn' = [rconn EXCEPT ![r] = "read"]
    /\ ev' = NoEv
    /\ UNCHANGED <<offset, slaves, reported, wait_triggers, events, ready,
                   running, conn, ncmds, budget, storage, rpos, replica, acks, rcmds,
                   broken>>
    /\ UNCHANGED <<peers, svars, clock, xvars>>

\* REPLCONF ACK <offset> arrives from a replica connection:
\* ReplconfCommand.execute calls store_offset and yields no reply
AckRecv(r) ==
    /\ rconn[r] = "read"
    /\ r \notin broken
    /\ acks[r] # <<>>
    /\ LET parsed == Head(acks[r])
           so == store_offset(slaves, reported, wait_triggers, events, r,
                              int(parsed[3]))
       IN /\ lower(parsed[1]) = "replconf" /\ lower(parsed[2]) = "ack"
          /\ reported' = so.reported
          /\ wait_triggers' = so.triggers
          /\ events' = so.events
          /\ ev' = [Ev("ack", r, Message(parsed, 0)) EXCEPT
                        !.val = int(parsed[3]), !.ok = in_dict(slaves, r)]
    /\ acks' = [acks EXCEPT ![r] = Tail(@)]
    /\ UNCHANGED <<offset, slaves, ready, running, conn, ncmds, budget, storage, sent,
                   rpos, replica, rconn, rcmds, broken>>
    /\ UNCHANGED <<peers, svars, clock, xvars>>

\* the connection of a registered replica is lost: later writes to it fail
ConnReset(r) ==
    /\ rconn[r] = "read"
    /\ Cardinality(broken) < MaxResets
    /\ r \notin broken
    /\ broken' = broken \cup {r}
    /\ ev' = NoEv
    /\ UNCHANGED <<offset, slaves, reported, wait_triggers, events, ready,
                   running, conn, ncmds, budget, storage, sent, rpos, replica, acks,
                   rconn, rcmds>>
    /\ UNCHANGED <<peers, svars, clock, xvars>>

\* --------------------------------------------------------- replica side
\* a hook that takes the FULLRESYNC line for the end of the handshake
post_handle_hook_on_line(self, m) ==
    [self EXCEPT
        !.offset = IF self.handshake_finished
                   THEN inc_offset(self.offset, m.size) ELSE self.offset,
        !.handshake_finished =
            self.handshake_finished \/ (m.kind = "simple" /\ Len(m.parsed[1]) > 4)]

\* SlaveServer._post_handle_hook
post_handle_hook(self, m) ==
    [self EXCEPT
        !.offset = IF self.handshake_finished
                   THEN inc_offset(self.offset, m.size) ELSE self.offset,
        !.handshake_finished =
            self.handshake_finished \/ (m.kind = "bulk" /\ m.parsed[1] = "REDIS0011")]

\* RedisCommandHandler.handle on a replica, for its effect on the store
replica_apply(self, m) ==
    IF m.kind # "array" THEN self
    ELSE IF lower(m.parsed[1]) = "set" /\ Len(m.parsed) = 3
    THEN [self EXCEPT !.store = set_value(self.store, m.parsed[2], m.parsed[3], NoExpiry)]
    ELSE IF lower(m.parsed[1]) = "xadd" /\ Len(m.parsed) >= 3
    THEN [self EXCEPT !.store =
            xadd_command(self.store, m.parsed[2], m.parsed[3],
                         SubSeq(m.parsed, 4, Len(m.parsed)), clock).store]
    ELSE IF lower(m.parsed[1]) = "get" /\ Len(m.parsed) = 2
    THEN [self EXCEPT !.store = storage_get(self.store, m.parsed[2], clock).store]
    ELSE self

\* the replies RedisCommandHandler.handle lets through on a replica: of the
\* commands modelled, only REPLCONF GETACK * yields one that is written
replica_replies(self, m) ==
    IF /\ m.kind = "array" /\ lower(m.parsed[1]) = "replconf"
       /\ Len(m.parsed) = 3 /\ lower(m.parsed[2]) = "getack" /\ m.parsed[3] = "*"
    THEN <<<<"REPLCONF", "ACK", ToString(self.offset)>>>>
    ELSE <<>>

\* the replica reads the next frame the primary wrote to its socket
ReplicaRecv(r) ==
    /\ rpos[r] < Len(sent[r])
    /\ LET m == sent[r][rpos[r] + 1] IN
        /\ acks' = [acks EXCEPT ![r] = @ \o replica_replies(replica[r], m)]
        /\ replica' = [replica EXCEPT ![r] =
                          post_handle_hook(replica_apply(replica[r], m), m)]
        /\ ev' = NoEv
    /\ rpos' = [rpos EXCEPT ![r] = @ + 1]
    /\ UNCHANGED <<offset, slaves, reported, wait_triggers, events, ready,
                   running, conn, ncmds, budget, storage, sent, rconn, rcmds, broken>>
    /\ UNCHANGED <<peers, svars, clock, xvars>>

\* a client of the replica sends it a command on its own connection (the
\* replica listens once connect_master has returned): the same
\* _receive_message, and so the same _post_handle_hook, handles it
ReplicaClient(r, parsed) ==
    /\ rpos[r] >= 1
    /\ rcmds < MaxReplicaCmds
    /\ rcmds' = rcmds + 1
    /\ LET m == Message(parsed, 0) IN
        /\ replica' = [replica EXCEPT ![r] =
                          post_handle_hook(replica_apply(replica[r], m), m)]
        /\ ev' = NoEv
    /\ UNCHANGED <<offset, slaves, reported, wait_triggers, events, ready,
                   running, conn, ncmds, budget, storage, sent, rpos, acks, rconn,
                   broken>>
    /\ UNCHANGED <<peers, svars, clock, xvars>>

\* ---------------------------------------------------------------- specs
Next ==
    \/ \E c \in Conns, buf \in Buffers : Recv(c, buf)
    \/ \E c \in Conns : HandleNext(c)
    \/ \E c \in Conns, timed_out \in BOOLEAN : WaitReturn(c, timed_out)
    \/ PropStart
    \/ \E t \in running : PropStep(t)
    \/ \E r \in Replicas : Psync(r)
    \/ \E r \in Replicas : PsyncRdb(r)
    \/ \E r \in Replicas : AckRecv(r)
    \/ \E r \in Replicas : ConnReset(r)
    \/ \E r \in Replicas : ReplicaRecv(r)
    \/ \E r \in Replicas, parsed \in ReplicaClientCmds : ReplicaClient(r, parsed)

Spec == Init /\ [][Next]_vars

\* ------------------------------------------------- stream specification
SInit ==
    /\ PrimaryIdle
    /\ peers = {}
    /\ budget = 0
    /\ StreamIdle
    /\ clock \in 0..MaxClock

\* one call stream.xadd(id_, ["f", "v"])
StreamXadd(id_) ==
    /\ xcalls < MaxAdds
    /\ LET r == xadd(stream, id_, <<"f", "v">>, clock) IN
        /\ stream' = r.stream
        /\ xret' = [ok |-> r.ok, ret |-> r.ret]
    /\ xcalls' = xcalls + 1
    /\ UNCHANGED <<pvars, clock, xvars>>

\* the wall clock advances
Tick ==
    /\ clock < MaxClock
    /\ clock' = clock + 1
    /\ UNCHANGED <<pvars, svars, xvars>>

SNext ==
    \/ \E id_ \in IdSpecs : StreamXadd(id_)
    \/ Tick

\* ------------------------------------------------- store specification
\* KeysCommand.execute: the array of the keys Storage.__iter__ yields, that
\* is every key of the dict, then one more reply
KeysCommand(c, parsed, rest) ==
    /\ lower(parsed[1]) = "keys"
    /\ ev' = [Ev("handle", c, Message(parsed, NextId)) EXCEPT
                    !.reply =
                        (IF lower(parsed[2]) = "*"
                         THEN <<Array({k \in DOMAIN storage :
                                          storage[k].kind # "none"})>>
                         ELSE <<>>)
                        \o <<ErrorString("Unknown keys subcommand {subcommand}")>>]
    /\ conn' = [conn EXCEPT ![c] = Done(rest)]
    /\ UNCHANGED <<offset, slaves, wait_triggers, ready, running, storage, sent>>
    /\ UNCHANGED <<events, stream_triggers>>
    /\ OthersUnchanged

\* the commands a client sends in SpecStore
StoreCmds ==
    {<<"SET", "k", "v">>, <<"SET", "k", "">>,
     <<"SET", "k", "v", "px", "1">>, <<"SET", "k", "v", "PX", "1">>,
     <<"GET", "k">>, <<"KEYS", "*">>}

\* RedisServer.handle_client for a buffer that holds one of these commands
StoreRecv(c, parsed) ==
    /\ conn[c].pc = "read"
    /\ 1 <= budget
    /\ budget' = budget - 1
    /\ ncmds' = ncmds + 1
    /\ \/ SetCommand(c, parsed, <<>>)
       \/ GetCommand(c, parsed, <<>>)
       \/ KeysCommand(c, parsed, <<>>)

StoreInit ==
    /\ PrimaryIdle
    /\ peers = {}
    /\ budget = MaxStoreCmds
    /\ StreamIdle
    /\ clock = 0

StoreNext ==
    \/ \E parsed \in StoreCmds : StoreRecv("c1", parsed)
    \/ PropStart
    \/ Tick

SpecStore == StoreInit /\ [][StoreNext]_vars

\* ----------------------------------------------- replica specification
\* the keys of the command table of RedisCommandHandler.handle
CommandTable ==
    {"ping", "echo", "set", "get", "xadd", "xrange", "xread", "type", "info",
     "replconf", "psync", "wait", "config", "keys"}

\* the replies the command's execute yields on a replica whose state is self
command_response(self, parsed, now) ==
    LET name == lower(parsed[1]) IN
    CASE name = "ping" -> <<SimpleString("PONG")>>
      [] name = "echo" -> <<BulkString(parsed[2])>>
      [] name = "set" ->
            IF Len(parsed) = 3 \/ (Len(parsed) = 5 /\ parsed[4] = "px")
            THEN <<SimpleString("OK")>>
            ELSE <<ErrorString("Wrong number of arguments for'set' command")>>
      [] name = "get" ->
            LET g == storage_get(self.store, parsed[2], now) IN
            IF g.value.kind = "string" /\ g.value.value # ""
            THEN <<BulkString(g.value.value)>> ELSE <<Null>>
      [] name = "type" ->
            LET g == storage_get(self.store, parsed[2], now) IN
            (IF g.value.kind = "string" THEN <<SimpleString("string")>>
             ELSE IF g.value.kind = "stream" THEN <<SimpleString("stream")>>
             ELSE <<>>) \o <<SimpleString("none")>>
      [] name = "keys" ->
            (IF lower(parsed[2]) = "*"
             THEN <<Array({k \in DOMAIN self.store : self.store[k].kind # "none"})>>
             ELSE <<>>)
            \o <<ErrorString("Unknown keys subcommand {subcommand}")>>
      [] name = "replconf" ->
            IF Len(parsed) = 3 /\ lower(parsed[2]) = "getack" /\ parsed[3] = "*"
            THEN <<Array(<<"REPLCONF", "ACK", ToString(self.offset)>>)>>
            ELSE <<ErrorString("Wrong arguments for'replconf' command")>>
      [] OTHER -> <<>>

\* RedisCommandHandler.handle: the responses it returns, which
\* _receive_message then writes to the sender
handle(is_master, self, parsed, now) ==
    LET name == lower(parsed[1]) IN
    IF name \notin CommandTable
    THEN <<ErrorString("Unknown command")>>
    ELSE LET response == command_response(self, parsed, now) IN
         IF ~ is_master
         THEN IF name \in {"replconf", "info", "get"} THEN response ELSE <<>>
         ELSE response

\* the commands a client of the replica sends in SpecReplica
ServeCmds ==
    {<<"PING">>, <<"ECHO", "x">>, <<"SET", "k", "v">>, <<"GET", "k">>,
     <<"KEYS", "*">>, <<"TYPE", "k">>, <<"REPLCONF", "GETACK", "*">>}

\* _receive_message of the replica for a command of one of its clients
ReplicaServe(r, parsed) ==
    /\ rpos[r] >= 1
    /\ rcmds < MaxServeCmds
    /\ rcmds' = rcmds + 1
    /\ LET m == Message(parsed, 0) IN
        /\ replica' = [replica EXCEPT ![r] =
                          post_handle_hook(replica_apply(replica[r], m), m)]
        /\ ev' = [Ev("serve", r, m) EXCEPT
                        !.val = Len(command_response(replica[r], parsed, clock)),
                        !.reply = handle(FALSE, replica[r], parsed, clock)]
    /\ UNCHANGED <<offset, slaves, reported, wait_triggers, events, ready,
                   running, conn, ncmds, budget, storage, sent, rpos, acks, rconn,
                   broken>>
    /\ UNCHANGED <<peers, svars, clock, xvars>>

ReplicaInit ==
    /\ PrimaryIdle
    /\ peers = {"r1"}
    /\ budget = 1
    /\ StreamIdle
    /\ clock = 0

ReplicaNext ==
    \/ \E parsed \in StoreCmds : StoreRecv("c1", parsed)
    \/ PropStart
    \/ \E t \in running : PropStep(t)
    \/ \E r \in Replicas : Psync(r)
    \/ \E r \in Replicas : PsyncRdb(r)
    \/ \E r \in Replicas : ReplicaRecv(r)
    \/ \E r \in Replicas, parsed \in ServeCmds : ReplicaServe(r, parsed)

SpecReplica == ReplicaInit /\ [][ReplicaNext]_vars

\* --------------------------------------------- handshake specification
\* the requests SlaveServer.connect_master sends, in its order
HandshakeRequests(port) ==
    <<<<"ping">>,
      <<"REPLCONF", "listening-port", port>>,
      <<"REPLCONF", "capa", "psync2">>,
      <<"PSYNC", "?", "-1">>>>

\* "+<s>\r\n" as a frame on the wire
SimpleFrame(x) ==
    [kind |-> "simple", parsed |-> <<x>>, size |-> 1 + Len(x) + 2, id |-> 0]

\* SlaveServer._send_request up to its read: the next request is written once
\* the read of the previous _send_request has returned
ShakeSend(r) ==
    /\ r \in peers
    /\ shake[r] < Len(HandshakeRequests("6380"))
    /\ rpos[r] >= shake[r]
    /\ acks' = [acks EXCEPT ![r] = Append(@, HandshakeRequests("6380")[shake[r] + 1])]
    /\ shake' = [shake EXCEPT ![r] = @ + 1]
    /\ ev' = NoEv
    /\ UNCHANGED <<offset, slaves, reported, wait_triggers, events, ready,
                   running, conn, ncmds, budget, storage, sent, rpos, replica,
                   rconn, rcmds, broken>>
    /\ UNCHANGED <<peers, svars, clock, stream_triggers, xwait, codec>>

\* the primary's _receive_message for a handshake request: PING and
\* REPLCONF are answered, PSYNC stores the connection and answers with the
\* FULLRESYNC line (the RDB payload follows in PsyncRdb)
ShakeServe(r) ==
    /\ rconn[r] = "new"
    /\ acks[r] # <<>>
    /\ LET parsed == Head(acks[r])
           name == lower(parsed[1])
       IN IF name = "psync"
          THEN /\ slaves' = dict_put(slaves, r)
               /\ sent' = [sent EXCEPT ![r] = Append(@, FullResync(offset))]
               /\ rconn' = [rconn EXCEPT ![r] = "rdb"]
          ELSE /\ sent' = [sent EXCEPT ![r] =
                            Append(@, SimpleFrame(IF name = "ping"
                                                  THEN "PONG" ELSE "OK"))]
               /\ UNCHANGED <<slaves, rconn>>
    /\ acks' = [acks EXCEPT ![r] = Tail(@)]
    /\ ev' = NoEv
    /\ UNCHANGED <<offset, reported, wait_triggers, events, ready, running,
                   conn, ncmds, budget, storage, rpos, replica, rcmds, broken>>
    /\ UNCHANGED <<peers, svars, clock, xvars>>

ShakeInit ==
    /\ PrimaryIdle
    /\ peers = {"r1"}
    /\ budget = MaxCmds
    /\ StreamIdle
    /\ clock = 0

ShakeNext ==
    \/ \E r \in Replicas : ShakeSend(r)
    \/ \E r \in Replicas : ShakeServe(r)
    \/ \E r \in Replicas : PsyncRdb(r)
    \/ \E r \in Replicas : ReplicaRecv(r)
    \/ \E r \in Replicas : AckRecv(r)
    \/ \E r \in Replicas, parsed \in ReplicaClientCmds : ReplicaClient(r, parsed)
    \/ \E c \in Conns, buf \in Buffers : Recv(c, buf)
    \/ \E c \in Conns, timed_out \in BOOLEAN : WaitReturn(c, timed_out)
    \/ PropStart
    \/ \E t \in running : PropStep(t)

SpecShake == ShakeInit /\ [][ShakeNext]_vars

\* -------------------------------------------------- xread specification
\* bulk_string_wrap of the _xread result: [None] when nothing was collected
xread_reply(result) ==
    IF result = <<>> THEN <<Array(<<Null>>)>> ELSE <<Array(result)>>

\* XReadCommand.execute up to its reply or to the wait on the trigger's
\* event; the words "block" and "streams" are matched as literals
XReadCommand(c, parsed, rest) ==
    /\ lower(parsed[1]) = "xread"
    /\ LET m == Message(parsed, NextId)
           plain == Len(parsed) >= 2 /\ parsed[2] = "streams"
           blocking == /\ Len(parsed) >= 4
                       /\ parsed[2] = "block"
                       /\ parsed[4] = "streams"
           streams == IF plain THEN SubSeq(parsed, 3, Len(parsed))
                      ELSE SubSeq(parsed, 5, Len(parsed))
           pairs == stream_entry_id(storage, streams, clock)
       IN IF plain
          THEN /\ ev' = [Ev("handle", c, m) EXCEPT
                            !.pairs = pairs,
                            !.reply = xread_reply(
                                        xread_result(storage, pairs, 1, clock))]
               /\ conn' = [conn EXCEPT ![c] = Done(rest)]
               /\ UNCHANGED <<stream_triggers, xwait>>
          ELSE IF blocking
          THEN /\ stream_triggers' =
                     register_stream_trigger(stream_triggers,
                         [id |-> m.id, key |-> pairs[1].key,
                          entry_id |-> pairs[1].entry_id])
               /\ xwait' = [xwait EXCEPT ![c] = pairs]
               /\ conn' = [conn EXCEPT ![c] =
                             [pc |-> "xblock", buf |-> rest, tid |-> m.id,
                              n |-> int(parsed[3]), num |-> 0, target |-> 0]]
               /\ ev' = [Ev("handle", c, m) EXCEPT !.op = "xread_block",
                                                   !.pairs = pairs]
          ELSE /\ ev' = [Ev("handle", c, m) EXCEPT !.ok = FALSE,
                            !.reply = <<ErrorString(
                                "Wrong number of arguments for 'xread' command")>>]
               /\ conn' = [conn EXCEPT ![c] = Done(rest)]
               /\ UNCHANGED <<stream_triggers, xwait>>
    /\ UNCHANGED <<offset, slaves, wait_triggers, ready, running, sent, storage,
                   events>>
    /\ UNCHANGED <<reported, rpos, replica, acks, rconn, rcmds, broken>>
    /\ UNCHANGED <<peers, svars, clock, shake, codec>>

\* XReadCommand._xread after the wait: the trigger's event was set
\* (timed_out = FALSE) or the timeout of a block_time above 0 elapsed; the
\* pairs are evaluated against the store as it is now. The trigger stays
\* in the list when the wait timed out.
XReadReturn(c, timed_out) ==
    /\ conn[c].pc = "xblock"
    /\ timed_out = (conn[c].tid \notin events)
    /\ timed_out => conn[c].n > 0
    /\ ev' = [NoEv EXCEPT !.op = IF timed_out THEN "xread_timeout"
                                 ELSE "xread_wake",
                          !.who = c, !.name = "xread", !.id = conn[c].tid,
                          !.n = conn[c].n, !.pairs = xwait[c],
                          !.reply = xread_reply(
                                      xread_result(storage, xwait[c], 1, clock))]
    /\ conn' = [conn EXCEPT ![c] = Done(conn[c].buf)]
    /\ xwait' = [xwait EXCEPT ![c] = <<>>]
    /\ UNCHANGED <<offset, slaves, wait_triggers, ready, running, ncmds, budget,
                   storage, sent, events, stream_triggers>>
    /\ UNCHANGED <<reported, rpos, replica, acks, rconn, rcmds, broken>>
    /\ UNCHANGED <<peers, svars, clock, shake, codec>>

\* the commands sent in SpecXread
XreadCmds ==
    {<<"XADD", "s", "1-1", "f", "v">>, <<"XADD", "s", "2-0", "f", "v">>,
     <<"XADD", "s", "1-0", "f", "v">>, <<"XADD", "k", "1-1", "f", "v">>,
     <<"XREAD", "streams", "s", "0-0">>,
     <<"XREAD", "streams", "s", "k", "1-1", "$">>,
     <<"XREAD", "block", "100", "streams", "s", "$">>,
     <<"XREAD", "block", "100", "streams", "s", "k", "1-1", "0-0">>,
     <<"XREAD", "block", "0", "streams", "k", "$">>,
     <<"XREAD", "BLOCK", "100", "STREAMS", "s", "$">>}

XreadRecv(c, parsed) ==
    /\ conn[c].pc = "read"
    /\ c = "c2" => ncmds > 0
    /\ 1 <= budget
    /\ budget' = budget - 1
    /\ ncmds' = ncmds + 1
    /\ \/ XAddCommand(c, parsed, <<>>)
       \/ XReadCommand(c, parsed, <<>>)

XreadInit ==
    /\ PrimaryIdle
    /\ peers = {}
    /\ budget = MaxReadCmds
    /\ StreamIdle
    /\ clock = 0

XreadNext ==
    \/ \E c \in Conns, parsed \in XreadCmds : XreadRecv(c, parsed)
    \/ \E c \in Conns, timed_out \in BOOLEAN : XReadReturn(c, timed_out)
    \/ PropStart

SpecXread == XreadInit /\ [][XreadNext]_vars

\* the event loop runs a timer that is due and a task whose event is set:
\* asyncio.wait_for returns once the event is set or the timeout elapsed
SpecXreadFair ==
    /\ SpecXread
    /\ \A c \in Conns :
          WF_vars(\E timed_out \in BOOLEAN : XReadReturn(c, timed_out))

\* ------------------------------------------------- xrange specification
\* XRangeCommand.execute: bulk_string_wrap of an empty list is None; an
\* exception of xrange (or of None.xrange when the key holds nothing) leaves
\* execute and ends the handle_client task without a reply
XRangeCommand(c, parsed, rest) ==
    /\ lower(parsed[1]) = "xrange"
    /\ LET m == Message(parsed, NextId) IN
        IF Len(parsed) = 4
        THEN LET v == storage_get(storage, parsed[2], clock).value
                 r == IF v.kind = "stream"
                      THEN xrange(v.value, parsed[3], parsed[4])
                      ELSE [ok |-> FALSE, items |-> <<>>]
             IN IF r.ok
                THEN /\ ev' = [Ev("handle", c, m) EXCEPT
                                  !.reply = IF r.items = <<>> THEN <<Null>>
                                            ELSE <<Array(r.items)>>]
                     /\ conn' = [conn EXCEPT ![c] = Done(rest)]
                ELSE /\ ev' = [Ev("handle", c, m) EXCEPT !.ok = FALSE]
                     /\ conn' = [conn EXCEPT ![c].pc = "dead"]
        ELSE /\ ev' = [Ev("handle", c, m) EXCEPT !.ok = FALSE,
                            !.reply = <<ErrorString(
                                "Wrong number of arguments for 'xrange' command")>>]
             /\ conn' = [conn EXCEPT ![c] = Done(rest)]
    /\ UNCHANGED <<offset, slaves, wait_triggers, ready, running, sent, storage,
                   events, stream_triggers>>
    /\ OthersUnchanged

\* the commands sent in SpecRange
RangeCmds ==
    {<<"XADD", "s", "1-1", "f", "v">>, <<"XADD", "s", "1-2", "f", "v">>,
     <<"XADD", "s", "2-0", "f", "v">>,
     <<"XRANGE", "s", "-", "+">>, <<"XRANGE", "s", "1-2", "+">>,
     <<"XRANGE", "s", "-", "1">>, <<"XRANGE", "s", "1", "1">>,
     <<"XRANGE", "s", "1-2", "2-0">>, <<"XRANGE", "s", "0", "2">>,
     <<"XRANGE", "s", "2", "1">>, <<"XRANGE", "s", "1-1">>}

RangeRecv(c, parsed) ==
    /\ conn[c].pc = "read"
    /\ c = "c2" => ncmds > 0
    /\ 1 <= budget
    /\ budget' = budget - 1
    /\ ncmds' = ncmds + 1
    /\ \/ XAddCommand(c, parsed, <<>>)
       \/ XRangeCommand(c, parsed, <<>>)

RangeInit ==
    /\ PrimaryIdle
    /\ peers = {}
    /\ budget = MaxRangeCmds
    /\ StreamIdle
    /\ clock = 0

RangeNext ==
    \/ \E c \in Conns, parsed \in RangeCmds : RangeRecv(c, parsed)
    \/ PropStart

SpecRange == RangeInit /\ [][RangeNext]_vars

\* ----------------------------------------------- pipeline specification
\* buffers of one read: single writes, and a command pipelined behind a
\* WAIT or behind an XREAD BLOCK
PipeBuffers ==
    {<<CmdSet>>, <<CmdXadd>>,
     <<CmdWait(1), CmdGet>>,
     <<<<"XREAD", "block", "100", "streams", "s", "$">>, CmdPing>>}

PipeClient(c, parsed, rest) ==
    \/ HandleClient(c, parsed, rest)
    \/ XReadCommand(c, parsed, rest)

\* RedisServer.handle_client: one read and the first message of the buffer
PipeRecv(c, buf) ==
    /\ conn[c].pc = "read"
    /\ c = "c2" => ncmds > 0
    /\ Len(buf) <= budget
    /\ budget' = budget - Len(buf)
    /\ ncmds' = ncmds + 1
    /\ PipeClient(c, Head(buf), Tail(buf))

\* RedisServer._receive_message: the next message of the same buffer
PipeHandleNext(c) ==
    /\ conn[c].pc = "next"
    /\ ncmds' = ncmds + 1
    /\ UNCHANGED budget
    /\ PipeClient(c, Head(conn[c].buf), Tail(conn[c].buf))

PipeInit ==
    /\ PrimaryIdle
    /\ peers = {"r1"}
    /\ budget = MaxPipeCmds
    /\ StreamIdle
    /\ clock = 0

PipeNext ==
    \/ \E c \in Conns, buf \in PipeBuffers : PipeRecv(c, buf)
    \/ \E c \in Conns : PipeHandleNext(c)
    \/ \E c \in Conns, timed_out \in BOOLEAN : WaitReturn(c, timed_out)
    \/ \E c \in Conns, timed_out \in BOOLEAN : XReadReturn(c, timed_out)
    \/ PropStart
    \/ \E t \in running : PropStep(t)
    \/ \E r \in Replicas : Psync(r)
    \/ \E r \in Replicas : PsyncRdb(r)
    \/ \E r \in Replicas : AckRecv(r)
    \/ \E r \in Replicas : ReplicaRecv(r)

SpecPipe == PipeInit /\ [][PipeNext]_vars

\* --------------------------------------------------- codec specification
\* the values of the supported frame kinds: scalars, and arrays of them
CodecScalars ==
    {SimpleString("OK"), SimpleString(""), ErrorString("ERR x"),
     Integer(0), Integer(7), BulkString("a"), BulkString(""),
     BulkString("hello"), Null}

CodecValues ==
    CodecScalars
    \cup {Array(<<>>), Array(<<Array(<<BulkString("a")>>)>>)}
    \cup {Array(<<x>>) : x \in CodecScalars}
    \cup {Array(<<x, y>>) : x, y \in CodecScalars}

\* RedisSerializer.serialize of a value
Serialize ==
    /\ codec.stage = "value"
    /\ codec' = [stage |-> "wire", x |-> codec.x, raw |-> serialize(codec.x)]
    /\ UNCHANGED <<pvars, svars, clock, stream_triggers, xwait, shake>>

\* Message.from_raw of the bytes
Deserialize ==
    /\ codec.stage = "wire"
    /\ codec' = [stage |-> "frames", x |-> codec.x, raw |-> codec.raw,
                 out |-> from_raw(codec.raw)]
    /\ UNCHANGED <<pvars, svars, clock, stream_triggers, xwait, shake>>

CodecInit ==
    /\ offset = 0
    /\ slaves = <<>>
    /\ reported = [r \in Replicas |-> 0]
    /\ wait_triggers = <<>>
    /\ events = {}
    /\ ready = <<>>
    /\ running = {}
    /\ conn = [c \in Conns |-> Done(<<>>)]
    /\ ncmds = 0
    /\ storage = [k \in Keys |-> Absent]
    /\ sent = [r \in Replicas |-> <<>>]
    /\ rpos = [r \in Replicas |-> 0]
    /\ replica = [r \in Replicas |->
                    [offset |-> 0, handshake_finished |-> FALSE,
                     store |-> [k \in Keys |-> Absent]]]
    /\ acks = [r \in Replicas |-> <<>>]
    /\ rconn = [r \in Replicas |-> "new"]
    /\ rcmds = 0
    /\ broken = {}
    /\ ev = NoEv
    /\ stream_triggers = <<>>
    /\ xwait = [c \in Conns |-> <<>>]
    /\ shake = [r \in Replicas |-> 0]
    /\ peers = {}
    /\ budget = 0
    /\ StreamIdle
    /\ clock = 0
    /\ codec \in {[stage |-> "value", x |-> v] : v \in CodecValues}

CodecNext == Serialize \/ Deserialize

SpecCodec == CodecInit /\ [][CodecNext]_vars

\* ----------------------------------------------- keyspace specification
\* TypeCommand.execute: the yield of "none" follows the if/elif and is
\* reached whatever the value is
TypeCommand(c, parsed, rest) ==
    /\ lower(parsed[1]) = "type"
    /\ LET g == storage_get(storage, parsed[2], clock) IN
        /\ storage' = g.store
        /\ ev' = [Ev("handle", c, Message(parsed, NextId)) EXCEPT
                    !.reply =
                        (IF g.value.kind = "string"
                         THEN <<SimpleString("string")>>
                         ELSE IF g.value.kind = "stream"
                         THEN <<SimpleString("stream")>>
                         ELSE <<>>)
                        \o <<SimpleString("none")>>]
    /\ conn' = [conn EXCEPT ![c] = Done(rest)]
    /\ UNCHANGED <<offset, slaves, wait_triggers, ready, running, sent>>
    /\ UNCHANGED <<events, stream_triggers>>
    /\ OthersUnchanged

\* the commands sent in SpecKeyspace
KeyspaceCmds ==
    {<<"SET", "k", "v">>, <<"SET", "k", "v", "px", "1">>,
     <<"XADD", "s", "0-0", "f", "v">>, <<"XADD", "s", "1-1", "f", "v">>,
     <<"XADD", "s", "1-0", "f", "v">>, <<"XADD", "k", "1-1", "f", "v">>,
     <<"TYPE", "k">>, <<"TYPE", "s">>, <<"KEYS", "*">>}

KeyspaceRecv(c, parsed) ==
    /\ conn[c].pc = "read"
    /\ c = "c2" => ncmds > 0
    /\ 1 <= budget
    /\ budget' = budget - 1
    /\ ncmds' = ncmds + 1
    /\ \/ SetCommand(c, parsed, <<>>)
       \/ XAddCommand(c, parsed, <<>>)
       \/ TypeCommand(c, parsed, <<>>)
       \/ KeysCommand(c, parsed, <<>>)

KeyspaceInit ==
    /\ PrimaryIdle
    /\ peers = {}
    /\ budget = MaxKeyCmds
    /\ StreamIdle
    /\ clock = 0

KeyspaceNext ==
    \/ \E c \in Conns, parsed \in KeyspaceCmds : KeyspaceRecv(c, parsed)
    \/ PropStart
    \/ Tick

SpecKeyspace == KeyspaceInit /\ [][KeyspaceNext]_vars

\* ------------------------------------------------- joining as a replica
\* the arguments a peer may send with PSYNC
PsyncArgs == {<<"?", "-1">>, <<"?", "0">>}

\* "-Wrong arguments for 'psync' command\r\n"
PsyncError ==
    [kind |-> "error", parsed |-> <<"Wrong arguments for 'psync' command">>,
     size |-> 1 + Len("Wrong arguments for 'psync' command") + 2, id |-> 0]

\* need_store_connection looks at the command name only
need_store_connection(parsed) ==
    Len(parsed) # 0 /\ lower(parsed[1]) = "psync"

\* PSYNC with other arguments: _pre_handle_hook stores the connection
\* before PsyncCommand.execute falls to its default case and yields the error
PsyncRejected(r, args) ==
    /\ r \in peers
    /\ rconn[r] = "new"
    /\ args # <<"?", "-1">>
    /\ slaves' = IF need_store_connection(<<"PSYNC">> \o args)
                 THEN dict_put(slaves, r)
                 ELSE slaves
    /\ sent' = [sent EXCEPT ![r] = Append(@, PsyncError)]
    /\ rconn' = [rconn EXCEPT ![r] = "read"]
    /\ ev' = NoEv
    /\ UNCHANGED <<offset, reported, wait_triggers, events, ready, running,
                   conn, ncmds, budget, storage, rpos, replica, acks, rcmds, broken>>
    /\ UNCHANGED <<peers, svars, clock, xvars>>

JoinInit ==
    /\ PrimaryIdle
    /\ peers = {"r1"}
    /\ budget = MaxCmds
    /\ StreamIdle
    /\ clock = 0

JoinNext ==
    \/ \E c \in Conns, buf \in Buffers : Recv(c, buf)
    \/ \E c \in Conns : HandleNext(c)
    \/ \E c \in Conns, timed_out \in BOOLEAN : WaitReturn(c, timed_out)
    \/ PropStart
    \/ \E t \in running : PropStep(t)
    \/ \E r \in Replicas : Psync(r)
    \/ \E r \in Replicas : PsyncRdb(r)
    \/ \E r \in Replicas, args \in PsyncArgs : PsyncRejected(r, args)
    \/ \E r \in Replicas : ConnReset(r)

SpecJoin == JoinInit /\ [][JoinNext]_vars

\* the same primary with one more command from its clients
DInit ==
    /\ PrimaryIdle
    /\ peers = {"r1"}
    /\ budget = MaxCmds + 1
    /\ StreamIdle
    /\ clock = 0

SpecDeep == DInit /\ [][Next]_vars

\* two replicas and the write path of the primary
OInit ==
    /\ PrimaryIdle
    /\ peers = {"r1", "r2"}
    /\ budget = MaxCmds
    /\ StreamIdle
    /\ clock = 0

ONext ==
    \/ \E c \in Conns, buf \in Buffers : Recv(c, buf)
    \/ \E c \in Conns : HandleNext(c)
    \/ \E c \in Conns, timed_out \in BOOLEAN : WaitReturn(c, timed_out)
    \/ PropStart
    \/ \E t \in running : PropStep(t)
    \/ \E r \in Replicas : Psync(r)
    \/ \E r \in Replicas : PsyncRdb(r)

SpecOrder == OInit /\ [][ONext]_vars

SpecStream == SInit /\ [][SNext]_vars

\* ---------------------------------------------------------------- claims
RECURSIVE SumSizes(_, _)
SumSizes(q, i) == IF i > Len(q) THEN 0 ELSE q[i].size + SumSizes(q, i + 1)

\* the bytes the primary has counted or has a created propagate task for
Accounted == offset + SumSizes(ready, 1)

\* a SET or XADD that passes the arity match of its command
WellFormedWrite(e) ==
    /\ e.op = "handle"
    /\ \/ e.name = "set" /\ e.argc = 3
       \/ e.name = "xadd" /\ e.argc >= 3

Registered(r) == \E i \in DOMAIN slaves : slaves[i] = r

Total == Cardinality({r \in Replicas : Registered(r)})

\* the registered replicas whose reported offset is at least off
SyncedTo(off) ==
    Cardinality({r \in Replicas : Registered(r) /\ reported[r] >= off})

\* replicas whose record a failed write has removed
Removed == Cardinality({i \in DOMAIN slaves : slaves[i] = Dummy})

GetAckRaw == "*3\r\n$8\r\nREPLCONF\r\n$6\r\nGETACK\r\n$1\r\n*\r\n"

C3_ReportedAtMostOffset ==
    \A r \in Replicas : Registered(r) => reported[r] <= offset

\* C4: when the reply of a SET or XADD is written, the primary offset has
\* advanced by the command's length and the frame is written to every
\* registered replica.
C4_PropagatedBeforeReply ==
    WellFormedWrite(ev) =>
        /\ offset = ev.before + ev.size
        /\ \A r \in Replicas :
              (Registered(r) /\ r \notin broken) =>
                  \E i \in DOMAIN sent[r] : sent[r][i].id = ev.id

\* C5: each replica receives the propagated frames in the order the primary
\* handled their commands.
C5_PropagationOrder ==
    \A r \in Replicas : \A i, j \in DOMAIN sent[r] :
        (i < j /\ sent[r][i].id > 0 /\ sent[r][j].id > 0) =>
            sent[r][i].id < sent[r][j].id

C8_AllSatisfiedTriggersFired ==
    (ev.op = "ack" /\ ev.ok) =>
        \A c \in Conns :
            (/\ conn[c].pc \in {"bcast", "block"}
             /\ SyncedTo(conn[c].target) >= conn[c].num)
                => conn[c].tid \in events

\* C9: every trigger in the list belongs to a WAIT that has not replied.
C9_NoStaleTriggers ==
    \A i \in DOMAIN wait_triggers :
        \E c \in Conns :
            /\ conn[c].pc \in {"bcast", "block"}
            /\ conn[c].tid = wait_triggers[i].id


\* C10: entry ids strictly increase in append order and last_id is the
\* maximum id, for every sequence of XADD calls with any id spec form.
C10_IdsStrictlyIncrease ==
    /\ \A i, j \in DOMAIN stream.entries :
          i < j => KeyLess(stream.entries[i].key, stream.entries[j].key)
    /\ \A i \in DOMAIN stream.entries :
          ~ KeyLess(stream.last_entry, stream.entries[i].key)
\* C11: a fully explicit XADD id is rejected with the "greater than 0-0"
\* message when it is (0,0), with the "equal or smaller" message when it is
\* not (0,0) and not above last_id, and is otherwise accepted, appended at
\* the end of the stream and returned.
C11_ExplicitIdOutcome ==
    [][\A t, q \in IdNums :
          StreamXadd(KeyStr(StreamKey(t, q))) =>
            IF t = 0 /\ q = 0
            THEN /\ ~ xret'.ok
                 /\ message(xret'.ret) =
                        "The ID specified in XADD must be greater than 0-0"
                 /\ stream' = stream
            ELSE IF ~ KeyLess(stream.last_entry, StreamKey(t, q))
            THEN /\ ~ xret'.ok
                 /\ message(xret'.ret) =
                        "The ID specified in XADD is equal or smaller than the target stream top item"
                 /\ stream' = stream
            ELSE /\ xret'.ok
                 /\ xret'.ret = KeyStr(StreamKey(t, q))
                 /\ stream'.last_entry = StreamKey(t, q)
                 /\ stream'.entries =
                        Append(stream.entries,
                               [key |-> StreamKey(t, q), value |-> <<"f", "v">>])]_vars
\* the entry of key k is a string that has not expired at time now
LiveString(st, k, now) ==
    /\ st[k].kind = "string"
    /\ (st[k].expired_time = NoExpiry \/ st[k].expired_time > now)

\* C12: SET k v PX t at time T stores v with the deadline T + t; a GET
\* before the deadline of a stored value returns it, and a GET of an
\* expired or absent key returns the null bulk.
C12_ExpiryReads ==
    [][\A parsed \in StoreCmds :
          StoreRecv("c1", parsed) =>
            /\ (lower(parsed[1]) = "set" /\ Len(parsed) = 5
                    /\ lower(parsed[4]) = "px") =>
                  /\ ev'.reply = <<SimpleString("OK")>>
                  /\ storage'[parsed[2]] =
                        [kind |-> "string", value |-> parsed[3],
                         expired_time |-> clock + int(parsed[5])]
            /\ lower(parsed[1]) = "get" =>
                  ev'.reply = IF LiveString(storage, parsed[2], clock)
                              THEN <<BulkString(storage[parsed[2]].value)>>
                              ELSE <<Null>>]_vars

\* C13: the array KEYS * replies holds only keys that are live at that
\* time.
C13_KeysOnlyLive ==
    (ev.op = "handle" /\ ev.name = "keys") =>
        \A k \in ev.reply[1].val : LiveString(storage, k, clock)
\* C14: a replica writes the reply of a command back exactly when the
\* command is one of REPLCONF, INFO, GET, XREAD, XRANGE, TYPE, KEYS, CONFIG,
\* PING, ECHO, and writes none for SET and XADD; the primary writes every
\* reply.
C14_ReplyVisibility ==
    /\ ev.op = "serve" =>
          /\ (ev.reply # <<>>) <=>
                ev.name \in {"replconf", "info", "get", "xread", "xrange",
                             "type", "keys", "config", "ping", "echo"}
          /\ ev.name \in {"set", "xadd"} => ev.reply = <<>>
    /\ ev.op = "handle" => ev.reply # <<>>
\* the handshake requests, command names in lower case
ExpectedRequests ==
    <<<<"ping">>, <<"replconf", "listening-port">>, <<"replconf", "capa">>,
      <<"psync", "?">>>>

RdbIndex(r) ==
    CHOOSE i \in 1..Len(sent[r]) :
        sent[r][i] = RdbFrame /\ \A j \in 1..(i - 1) : sent[r][j] # RdbFrame

\* the size of the frames i..n of q
RangeSize(q, i, n) ==
    SumSizes(SubSeq(q, i, n), 1)

\* the bytes of replicated commands r has read since the RDB payload
AppliedBytes(r) == RangeSize(sent[r], RdbIndex(r) + 1, rpos[r])

IsGetAck(m) ==
    /\ m.kind = "array"
    /\ Len(m.parsed) = 3
    /\ lower(m.parsed[1]) = "replconf"
    /\ lower(m.parsed[2]) = "getack"

\* C16: a replica past the handshake that has read N bytes of replicated
\* commands from the primary answers REPLCONF GETACK * with REPLCONF ACK N,
\* and its offset afterwards is N plus the size of the GETACK frame.
C16_AckIsAppliedBytes ==
    [][\A r \in Replicas :
          (/\ rpos'[r] = rpos[r] + 1
           /\ replica[r].handshake_finished
           /\ IsGetAck(sent[r][rpos'[r]])) =>
              /\ acks'[r] = Append(acks[r],
                      <<"REPLCONF", "ACK", ToString(AppliedBytes(r))>>)
              /\ replica'[r].offset =
                      AppliedBytes(r) + sent[r][rpos'[r]].size]_vars
\* the triggers of the list that XADD to stream_key with new id entry_id hits
Hit(t, stream_key, entry_id) ==
    t.key = stream_key /\ KeyLess(t.entry_id, entry_id)

Above(st, k, watermark) ==
    IF st[k].kind = "stream"
    THEN {i \in DOMAIN st[k].value.entries :
            KeyLess(watermark, st[k].value.entries[i].key)}
    ELSE {}

C19_BlockingCommandsReturn ==
    \A c \in Conns : conn[c].pc # "dead"
\* the XREAD half of C19: an XREAD BLOCK ms with ms > 0 is answered
XreadBlockReturns ==
    \A c \in Conns :
        (conn[c].pc = "xblock" /\ conn[c].n > 0) ~> (conn[c].pc # "xblock")
\* the bounds the XRANGE arguments stand for
RangeStart(x) ==
    IF x = "-" THEN StreamKey(0, 0)
    ELSE IF \E n \in IdNums : ToString(n) = x THEN StreamKey(int(x), 0)
    ELSE StreamKey(split_pair(x)[1], split_pair(x)[2])

RangeEnd(x) ==
    IF x = "+" THEN StreamKey(inf, inf)
    ELSE IF \E n \in IdNums : ToString(n) = x THEN StreamKey(int(x), inf)
    ELSE StreamKey(split_pair(x)[1], split_pair(x)[2])

\* C20: XRANGE k start end on a stream replies with exactly the entries
\* whose id is between start and end, both included, in ascending id order;
\* "-" is (0,0), "+" is above every id, a bare "<ts>" is (ts,0) as start and
\* (ts,+inf) as end.
C20_XrangeInclusive ==
    [][\A c \in Conns, parsed \in RangeCmds :
          (/\ RangeRecv(c, parsed)
           /\ lower(parsed[1]) = "xrange"
           /\ Len(parsed) = 4
           /\ storage[parsed[2]].kind = "stream") =>
              LET entries == storage[parsed[2]].value.entries
                  wanted == SelectSeq(entries,
                      LAMBDA e : /\ KeyLeq(RangeStart(parsed[3]), e.key)
                                 /\ KeyLeq(e.key, RangeEnd(parsed[4])))
              IN /\ ev'.reply # <<>>
                 /\ wanted = (IF ev'.reply = <<Null>> THEN <<>>
                              ELSE ev'.reply[1].val)
                 /\ \A i, j \in DOMAIN wanted :
                       i < j => KeyLess(wanted[i].key, wanted[j].key)]_vars
\* C21: once the connection of a replica is closed or lost, the replica is
\* not in the replica dict any more, so num_replicas and WAIT do not count
\* it, and no propagated frame is written to it.
C21_ClosedReplicaRemoved ==
    /\ \A r \in broken : ~ in_dict(slaves, r)
    /\ ev.op \in {"wait_reply", "wait_timeout", "wait_wake"} =>
          ev.val <= Cardinality({r \in Replicas :
                                    in_dict(slaves, r) /\ r \notin broken})
\* the command of ev is parsed
IsCommand(e, parsed) ==
    /\ e.name = lower(parsed[1])
    /\ e.argc = Len(parsed)
    /\ e.size = ArrayLen(parsed)

\* C22: on one connection the commands are handled in the order they
\* arrived and the replies are written in that order: a command is taken
\* only when the one before it on the connection has replied, it is the
\* first of what is left of the buffer, and a blocked WAIT or XREAD BLOCK
\* keeps the commands pipelined behind it until its own reply is written.
C22_ReplyOrder ==
    [][\A c \in Conns :
          /\ (ncmds' # ncmds /\ ev'.who = c) =>
                /\ conn[c].pc \in {"read", "next"}
                /\ ev'.id = ncmds + 1
                /\ conn[c].pc = "next" =>
                      /\ IsCommand(ev', Head(conn[c].buf))
                      /\ conn'[c].buf = Tail(conn[c].buf)
                /\ conn[c].pc = "read" =>
                      \E buf \in PipeBuffers :
                          /\ IsCommand(ev', Head(buf))
                          /\ conn'[c].buf = Tail(buf)
          /\ conn[c].pc \in {"bcast", "block", "xblock"} =>
                /\ conn'[c].buf = conn[c].buf
                /\ conn'[c].pc \in {"read", "next"} =>
                      /\ ev'.who = c
                      /\ ev'.id = conn[c].tid
                      /\ ev'.reply # <<>>
          /\ (ev'.who = c /\ ev'.reply # <<>>) =>
                \/ ncmds' # ncmds /\ conn[c].pc \in {"read", "next"}
                \/ conn[c].pc \in {"block", "xblock"}
                       /\ ev'.id = conn[c].tid]_vars

\* the GET pipelined behind a WAIT that blocked is handled and answered
\* after the WAIT returned
C22_Witness ==
    /\ ev.op = "handle"
    /\ ev.name = "get"
    /\ wait_triggers # <<>>
    /\ ev.reply # <<>>

\* the same for the PING pipelined behind an XREAD BLOCK
PipedAfterXread ==
    /\ ev.op = "handle"
    /\ ev.name = "ping"
    /\ stream_triggers # <<>>
    /\ ev.reply # <<>>
\* equality of a decoded value with the value encoded, as Python compares
\* them: the str subclasses by their text, lists element by element
RECURSIVE PyEq(_, _)
PyEq(a, b) ==
    IF a.kind = "array" \/ b.kind = "array"
    THEN /\ a.kind = b.kind
         /\ Len(a.val) = Len(b.val)
         /\ \A i \in DOMAIN a.val : PyEq(a.val[i], b.val[i])
    ELSE IF a.kind \in {"simple", "error", "bulk"}
    THEN b.kind \in {"simple", "error", "bulk"} /\ a.val = b.val
    ELSE a = b

\* C23: decoding the serializer's output for a value of a supported kind
\* yields one frame whose parsed value equals the value and whose raw bytes
\* and size are the whole buffer.
C23_RoundTrip ==
    codec.stage = "frames" =>
        /\ codec.out.ok
        /\ Len(codec.out.msgs) = 1
        /\ PyEq(codec.out.msgs[1].parsed, codec.x)
        /\ codec.out.msgs[1].raw = codec.raw
        /\ codec.out.msgs[1].size = Len(codec.raw)
\* C24: an XADD that ends in an error (id 0-0, id not above last_id, key
\* holding a string) leaves the store as it was: no key is created, and a
\* value that is there keeps its entries and its last_id.
C24_FailedXaddNoChange ==
    [][(ev'.op = "handle" /\ ev'.name = "xadd" /\ ~ ev'.ok) =>
          \A k \in Keys :
              \/ storage'[k] = storage[k]
              \/ /\ ~ LiveString(storage, k, clock)
                 /\ storage[k].kind = "string"
                 /\ storage'[k] = Absent]_vars

\* C25: TYPE k yields exactly one reply, +string for a live string, +stream
\* for a stream, +none for a key that is absent or expired; KEYS * yields
\* exactly one reply, the array.
C25_OneReply ==
    [][\A c \in Conns, parsed \in KeyspaceCmds :
          KeyspaceRecv(c, parsed) =>
              /\ lower(parsed[1]) = "type" =>
                    ev'.reply =
                        <<SimpleString(
                            IF LiveString(storage, parsed[2], clock)
                            THEN "string"
                            ELSE IF storage[parsed[2]].kind = "stream"
                            THEN "stream" ELSE "none")>>
              /\ lower(parsed[1]) = "keys" =>
                    /\ Len(ev'.reply) = 1
                    /\ ev'.reply[1].kind = "array"]_vars
\* C26: the offset of a replica counts the bytes of the replication stream
\* it has read from the primary since the RDB payload and nothing else; a
\* command from a client of the replica leaves it as it is.
C26_OffsetIsMasterBytes ==
    \A r \in Replicas :
        replica[r].offset =
            IF replica[r].handshake_finished THEN AppliedBytes(r) ELSE 0

\* a frame written by MasterServer.propagate: a command array
IsPropagated(m) == m.kind = "array"

\* the replies of an accepted PSYNC are both among the frames
FullySynced(frames) ==
    /\ \E j \in DOMAIN frames :
           frames[j].kind = "simple" /\ frames[j].parsed = <<"FULLRESYNC">>
    /\ \E j \in DOMAIN frames : frames[j] = RdbFrame

\* C27: a connection enters the replicas map only in the step that writes
\* +FULLRESYNC to it (an accepted PSYNC ? -1), and a propagated command is
\* written to a connection only after +FULLRESYNC and the RDB payload
\* were both written to it
C27_JoinOnlyByAcceptedPsync ==
    [][\A r \in Replicas :
          /\ (~in_dict(slaves, r) /\ in_dict(slaves', r))
                 => sent'[r] = Append(sent[r], FullResync(offset))
          /\ (Len(sent'[r]) > Len(sent[r])
              /\ IsPropagated(sent'[r][Len(sent'[r])]))
                 => FullySynced(sent[r])]_vars

\* a peer whose PSYNC was answered with an error is in the replicas map
C27_RejectedPeerStored ==
    \E r \in Replicas :
        /\ in_dict(slaves, r)
        /\ sent[r] # <<>>
        /\ sent[r][1] = PsyncError

\* C28: a SET or XADD that the primary answers with an error (or that ends
\* in an exception) creates no propagate task, so its bytes are neither
\* added to the offset nor written to a replica.
C28_RejectedWriteNotPropagated ==
    [][(ev'.op = "handle" /\ ev'.name \in {"set", "xadd"} /\ ~ ev'.ok)
          => ready' = ready]_vars

\* a SET with wrong arity was handled and nothing was queued for it
C28_BadSetHandled ==
    /\ ev.op = "handle"
    /\ ev.name = "set"
    /\ ~ ev.ok
    /\ \A i \in DOMAIN ready : ready[i].id # ev.id
====
